---- MODULE Spec2Model ----
(***************************************************************************)
(* Model of tools/article_checker/article_checker_claude.py: the cache     *)
(* store, the header and structure validators, and the review pipeline     *)
(* (main).  Strings are TLA+ strings read character by character; indices  *)
(* are Python's (0-based) and slices are half-open, as in the source.      *)
(*                                                                         *)
(* Two characters of the source cannot be written in a TLA+ string: the    *)
(* backquote of the markdown fence is written "~", and the non-ASCII       *)
(* glyphs of the messages are written "(!)", "(v)" and "(x)".              *)
(***************************************************************************)
EXTENDS Integers, Sequences, FiniteSets, TLC

(***************************************************************************)
(* Python's str operations, as the validators use them.                    *)
(***************************************************************************)
\* s[a:b], clamped to the string as Python clamps a slice.
Slice(s, a, b) ==
    IF a >= Len(s) \/ b <= a THEN ""
    ELSE SubSeq(s, a + 1, IF b > Len(s) THEN Len(s) ELSE b)

\* s[i] for 0 <= i < len(s).
CharAt(s, i) == SubSeq(s, i + 1, i + 1)

startswith(s, p) == Len(s) >= Len(p) /\ SubSeq(s, 1, Len(p)) = p

\* s.find(sub, start): the lowest index from start on where sub occurs, or -1.
find(s, sub, start) ==
    LET at == {i \in start..(Len(s) - Len(sub)) : Slice(s, i, i + Len(sub)) = sub}
    IN  IF at = {} THEN -1 ELSE CHOOSE i \in at : \A j \in at : i <= j

contains(s, sub) == find(s, sub, 0) # -1

RECURSIVE split(_, _)
split(s, sep) ==
    LET i == find(s, sep, 0)
    IN  IF i = -1 THEN <<s>>
        ELSE <<Slice(s, 0, i)>> \o split(Slice(s, i + Len(sep), Len(s)), sep)

split1(s, sep) ==
    LET i == find(s, sep, 0)
    IN  IF i = -1 THEN <<s>>
        ELSE <<Slice(s, 0, i), Slice(s, i + Len(sep), Len(s))>>

IsSpace(c) == c \in {" ", "\t", "\n", "\r"}

RECURSIVE lstrip(_)
lstrip(s) ==
    IF Len(s) > 0 /\ IsSpace(CharAt(s, 0)) THEN lstrip(Slice(s, 1, Len(s))) ELSE s

RECURSIVE rstrip(_)
rstrip(s) ==
    IF Len(s) > 0 /\ IsSpace(CharAt(s, Len(s) - 1))
    THEN rstrip(Slice(s, 0, Len(s) - 1)) ELSE s

strip(s) == rstrip(lstrip(s))

Uppers == "ABCDEFGHIJKLMNOPQRSTUVWXYZ"

Lowers == "abcdefghijklmnopqrstuvwxyz"

LowerOf == [c \in {CharAt(Uppers, i) : i \in 0..25} |->
              CharAt(Lowers, CHOOSE i \in 0..25 : CharAt(Uppers, i) = c)]

lowerChar(c) == IF c \in DOMAIN LowerOf THEN LowerOf[c] ELSE c

RECURSIVE lower(_)
lower(s) ==
    IF Len(s) = 0 THEN s
    ELSE lowerChar(CharAt(s, 0)) \o lower(Slice(s, 1, Len(s)))

RECURSIVE join(_, _)
join(sep, parts) ==
    IF Len(parts) = 0 THEN ""
    ELSE IF Len(parts) = 1 THEN parts[1]
    ELSE parts[1] \o sep \o join(sep, Tail(parts))

IsDigit(c) == c \in {"0", "1", "2", "3", "4", "5", "6", "7", "8", "9"}

\* s.count(c) for a character c.
count(s, c) == Cardinality({i \in 0..(Len(s) - 1) : CharAt(s, i) = c})

\* The position after the run of whitespace that starts at i (regex \s*, greedy).
RECURSIVE skipSpace(_, _)
skipSpace(s, i) ==
    IF i < Len(s) /\ IsSpace(CharAt(s, i)) THEN skipSpace(s, i + 1) ELSE i

\* The end of the line that holds position i: the next "\n", or the end of s.
lineEnd(s, i) ==
    LET n == find(s, "\n", i) IN IF n = -1 THEN Len(s) ELSE n

(***************************************************************************)
(* Outcomes of a call: a returned value or a raised exception.             *)
(***************************************************************************)
Return(v) == [kind |-> "return", value |-> v]

Raise(exc, text) == [kind |-> "raise", exc |-> exc, text |-> text]

NoMatch == [kind |-> "none"]

(***************************************************************************)
(* validate_headers (lines 92-145) and validate_entities_section.          *)
(***************************************************************************)
required_fields == {"date", "entities", "title"}

\* Lines 110-115: the lines holding a colon; the field name is what precedes
\* the first colon of the stripped line, stripped and lower-cased.
present_fields(frontmatter) ==
    LET lines == split(frontmatter, "\n")
    IN  { lower(strip(split1(strip(lines[i]), ":")[1])) :
            i \in {j \in 1..Len(lines) : contains(lines[j], ":")} }

\* Line 117: required_fields - present_fields.
missing_fields(frontmatter) == required_fields \ present_fields(frontmatter)

\* Line 119: ', '.join(missing) iterates a Python set of str, whose order is
\* that of the process's string hashes; order is that iteration order, as a
\* sequence over required_fields.
missing_message(missing, order) ==
    "Missing required YAML headers: "
        \o join(", ", SelectSeq(order, LAMBDA f : f \in missing))

\* Line 123: re.search(r'date:\s*(\d{4}-\d{2}-\d{2})', frontmatter, re.IGNORECASE).
date_match_at(s, i) ==
    /\ lower(Slice(s, i, i + 5)) = "date:"
    /\ LET p == skipSpace(s, i + 5)
       IN  /\ p + 10 <= Len(s)
           /\ \A k \in {0, 1, 2, 3, 5, 6, 8, 9} : IsDigit(CharAt(s, p + k))
           /\ CharAt(s, p + 4) = "-"
           /\ CharAt(s, p + 7) = "-"

date_match(frontmatter) ==
    \E i \in 0..(Len(frontmatter) - 1) : date_match_at(frontmatter, i)

\* Line 128: the second alternative, re.search(r'entities:', ...), matches
\* whenever the first does.
entities_match(frontmatter) == contains(frontmatter, "entities:")

IsQuote(c) == c \in {"'", "\""}

\* "." of the title pattern matches at r: any character but a newline.
Dot(s, r) == r < Len(s) /\ CharAt(s, r) # "\n"

\* Line 135, after "title:" ending at p:  \s*['"]?(.+)['"]?\s*$  with
\* re.MULTILINE.  \s* has taken k characters; the optional quote is tried
\* taken, then not taken, then \s* gives one character back.  (.+) is greedy
\* and runs to the end of its line, where the rest of the pattern matches
\* empty: group(1) keeps a trailing quote and trailing blanks.
RECURSIVE title_group(_, _, _)
title_group(s, p, k) ==
    LET q == p + k
        quoted == q < Len(s) /\ IsQuote(CharAt(s, q))
    IN  IF quoted /\ Dot(s, q + 1)
            THEN Return(Slice(s, q + 1, lineEnd(s, q + 1)))
        ELSE IF Dot(s, q) THEN Return(Slice(s, q, lineEnd(s, q)))
        ELSE IF k = 0 THEN NoMatch
        ELSE title_group(s, p, k - 1)

\* re.search: the leftmost occurrence of "title:" from which the pattern matches.
RECURSIVE title_search(_, _)
title_search(s, i) ==
    LET j == find(s, "title:", i)
    IN  IF j = -1 THEN NoMatch
        ELSE LET p == j + 6
                 m == title_group(s, p, skipSpace(s, p) - p)
             IN  IF m.kind = "return" THEN m ELSE title_search(s, j + 1)

title_match(frontmatter) == title_search(frontmatter, 0)

\* Line 167: yaml.safe_load of the entities slice.  PyYAML is a library, not
\* code of the repository; of its grammar the model keeps that a flow
\* sequence left open, or closed without being opened, is a YAMLError.
yaml_error(text) == count(text, "[") # count(text, "]")

\* Lines 159-165: the slice from 'entities:' to the next "\ntitle:" if there
\* is one (at a position > 0), else to the next "\ndate:", else to the end.
entities_section(frontmatter) ==
    LET section == Slice(frontmatter, find(frontmatter, "entities:", 0),
                         Len(frontmatter))
        t == find(section, "\ntitle:", 0)
        d == find(section, "\ndate:", 0)
    IN  IF t > 0 THEN Slice(section, 0, t)
        ELSE IF d > 0 THEN Slice(section, 0, d)
        ELSE section

\* Lines 148-172.
validate_entities_section(frontmatter) ==
    IF find(frontmatter, "entities:", 0) = -1 THEN Return("None")
    ELSE IF yaml_error(entities_section(frontmatter))
        THEN Raise("ValueError", "Invalid YAML in entities section")
    ELSE Return("None")

Verdict(valid, msg) == Return([valid |-> valid, msg |-> msg])

\* Lines 134-142.
validate_title(frontmatter) ==
    LET m == title_match(frontmatter)
    IN  IF m.kind = "none"
            THEN Verdict(FALSE, "Missing or empty 'title' header")
        ELSE LET title == strip(m.value)
             IN  IF title = "" \/ Len(title) < 10
                     THEN Verdict(FALSE,
                            "'title' header must be at least 10 characters (got: "
                                \o ToString(Len(title)) \o ")")
                 ELSE Verdict(TRUE, "Headers validated successfully")

\* Line 102 with the search started at the opening delimiter itself.
find_end_marker_from_0(content) == find(content, "---", 0)

\* Line 102: end_marker = content.find('---', 3).
find_end_marker(content) == find(content, "---", 3)

\* Lines 98-142: the body of the try block.
headers_try(content, order) ==
    IF ~startswith(content, "---")
        THEN Verdict(FALSE, "Missing YAML frontmatter delimiter '---' at start")
    ELSE LET end_marker == find_end_marker(content)
             frontmatter == Slice(content, 3, end_marker)
             missing == missing_fields(frontmatter)
             entities == validate_entities_section(frontmatter)
         IN  IF end_marker = -1
                 THEN Verdict(FALSE, "Missing closing YAML delimiter '---'")
             ELSE IF missing # {}
                 THEN Verdict(FALSE, missing_message(missing, order))
             ELSE IF ~date_match(frontmatter)
                 THEN Verdict(FALSE,
                        "Invalid or missing 'date' header (must be YYYY-MM-DD format)")
             ELSE IF ~entities_match(frontmatter)
                 THEN Verdict(FALSE, "Missing or malformed 'entities' header")
             ELSE IF entities.kind = "raise" THEN entities
             ELSE validate_title(frontmatter)

\* Lines 144-145 with the exception raised again instead of reported.
headers_except_reraise(e) == e

\* Lines 144-145: except Exception as e.
headers_except(e) == Verdict(FALSE, "Error validating headers: " \o e.text)

\* Lines 92-145.
validate_headers(content, order) ==
    LET r == headers_try(content, order)
    IN  IF r.kind = "raise" THEN headers_except(r) ELSE r

(***************************************************************************)
(* validate_markdown_structure (lines 175-207).                            *)
(***************************************************************************)
\* Lines 8-25: the module imports no "re"; line 122 imports it inside
\* validate_headers, which binds a local name of that function only.
re_is_module_global == FALSE

required_sections == <<"## Summary", "## Methodology", "## Conclusion">>

\* Lines 188-193.
sections_issues(body) ==
    LET missing == SelectSeq(required_sections, LAMBDA x : ~contains(body, x))
    IN  IF Len(missing) > 0
            THEN <<"Missing required sections: " \o join(", ", missing)>>
        ELSE <<>>

\* Lines 195-197; reached only when the name re resolves.
code_block_issues(body) ==
    IF ~contains(body, "~~~")
        THEN <<"No code blocks found - consider including code examples, analysis scripts, or methodology snippets">>
    ELSE <<>>

\* Lines 199-201.
references_issues(body) ==
    IF ~contains(body, "## References")
        THEN <<"'## References' section is recommended for citing data sources">>
    ELSE <<>>

\* Lines 203-205.
figure_issues(body) ==
    IF ~contains(body, "{{<") \/ ~contains(body, ">}}")
        THEN <<"No figures detected using Hugo figure syntax; articles should include visualizations">>
    ELSE <<>>

\* Lines 175-207.
validate_markdown_structure(content) ==
    LET body_start == find(content, "---", 3)
        body == Slice(content, body_start + 3, Len(content))
        issues == sections_issues(body) \o code_block_issues(body)
                    \o references_issues(body) \o figure_issues(body)
    IN  IF body_start = -1
            THEN Return([valid |-> FALSE, issues |-> <<"Cannot find markdown body">>])
        ELSE IF ~re_is_module_global
            THEN Raise("NameError", "name 're' is not defined")
        ELSE Return([valid |-> Len(issues) = 0, issues |-> issues])

(***************************************************************************)
(* The articles the validators are applied to.  An article is an opening   *)
(* delimiter (or none), front-matter lines with distinct keys in any       *)
(* order, a closing delimiter (or none) and a body made of parts.          *)
(***************************************************************************)
MaxLines == 4

DATE_OK == "date: 2025-01-01"

ENTITIES_OK == "entities: [a, b]"

ENTITIES_OPEN == "entities: [a, b"

TITLE_OK == "title: \"A sufficiently long title\""

FieldLines ==
    [ date     |-> {DATE_OK, "date: 2025-1-1"},
      entities |-> {ENTITIES_OK, ENTITIES_OPEN},
      title    |-> {TITLE_OK, "title: \"123456789\"", "title: short"},
      subtitle |-> {"subtitle: x"},
      Author   |-> {"Author: somebody"} ]

Keys == DOMAIN FieldLines

LinePool == UNION {FieldLines[k] : k \in Keys}

KeyOf(line) == CHOOSE k \in Keys : line \in FieldLines[k]

FrontMatters ==
    UNION { { ls \in [1..n -> LinePool] :
                \A i, j \in 1..n : i # j => KeyOf(ls[i]) # KeyOf(ls[j]) } :
            n \in 0..(IF MaxLines < Cardinality(Keys) THEN MaxLines
                       ELSE Cardinality(Keys)) }

BodyParts ==
    <<"## Summary", "## Methodology", "## Conclusion", "~~~code~~~",
      "## References", "{{< figure >}}">>

\* Every front matter with every choice of delimiters over a one-part body,
\* and every choice of body parts under one complete front matter.
Articles ==
    [open : BOOLEAN, lines : FrontMatters, close : BOOLEAN, parts : {{1}}]
    \cup
    [open : {TRUE},
     lines : {<<DATE_OK, ENTITIES_OK, TITLE_OK>>},
     close : {TRUE}, parts : SUBSET DOMAIN BodyParts]

RECURSIVE Lines(_)
Lines(ls) == IF Len(ls) = 0 THEN "" ELSE ls[1] \o "\n" \o Lines(Tail(ls))

Render(a) ==
    (IF a.open THEN "---\n" ELSE "")
        \o Lines(a.lines)
        \o (IF a.close THEN "---\n" ELSE "")
        \o Lines(SelectSeq(BodyParts,
                LAMBDA x : \E i \in a.parts : BodyParts[i] = x))

\* The iteration orders a Python set over required_fields can have.
HashOrders ==
    { o \in [1..3 -> required_fields] : \A i, j \in 1..3 : i # j => o[i] # o[j] }

NotRun == [kind |-> "notrun"]

(***************************************************************************)
(* Python values the pipeline passes around: None, a str, a list.          *)
(***************************************************************************)
PyNone == [type |-> "None"]

PyStr(s) == [type |-> "str", s |-> s]

PyList(items) == [type |-> "list", items |-> items]

\* bool(v), as "if v:" and "not v" take it.
truthy(v) ==
    CASE v.type = "None" -> FALSE
      [] v.type = "str"  -> v.s # ""
      [] v.type = "list" -> Len(v.items) > 0

(***************************************************************************)
(* The cache store (lines 58-89).  files maps the path of each existing    *)
(* cache file to its content and modification time; the clock counts       *)
(* hours, the unit of max_age_hours.                                       *)
(***************************************************************************)
max_age_hours == 24

KEY_TEXT_LEN == 1000

\* hashlib.md5(data.encode()).hexdigest(), taken as collision-free.
md5_hexdigest(data) == <<"md5", data>>

\* Lines 58-61.
cache_key(prefix, data) == <<prefix, md5_hexdigest(data)>>

\* Lines 66 and 84: os.path.join(cache_dir, f"{key}.json").
cache_file(cache_dir, key) == <<cache_dir, key, ".json">>

\* Line 71: file_age > max_age_hours * 3600, in hours.
is_stale(file_age) == file_age > max_age_hours

\* Lines 64-79 with the stale file left in place.
load_from_cache_keep(fs, now, cache_dir, key, read_fails) ==
    LET f == cache_file(cache_dir, key)
    IN  IF f \notin DOMAIN fs THEN [ret |-> PyNone, files |-> fs]
        ELSE IF is_stale(now - fs[f].mtime) THEN [ret |-> PyNone, files |-> fs]
        ELSE IF read_fails THEN [ret |-> PyNone, files |-> fs]
        ELSE [ret |-> PyStr(fs[f].data), files |-> fs]

\* Lines 64-79 with a hit that renews the file's modification time.
load_from_cache_touch(fs, now, cache_dir, key, read_fails) ==
    LET f == cache_file(cache_dir, key)
    IN  IF f \notin DOMAIN fs THEN [ret |-> PyNone, files |-> fs]
        ELSE IF is_stale(now - fs[f].mtime)
            THEN [ret |-> PyNone,
                  files |-> [g \in DOMAIN fs \ {f} |-> fs[g]]]
        ELSE IF read_fails THEN [ret |-> PyNone, files |-> fs]
        ELSE [ret |-> PyStr(fs[f].data),
              files |-> [fs EXCEPT ![f].mtime = now]]

\* Lines 64-79.  read_fails: open or read raises (line 78).
load_from_cache(fs, now, cache_dir, key, read_fails) ==
    LET f == cache_file(cache_dir, key)
    IN  IF f \notin DOMAIN fs THEN [ret |-> PyNone, files |-> fs]
        ELSE IF is_stale(now - fs[f].mtime)
            THEN [ret |-> PyNone,
                  files |-> [g \in DOMAIN fs \ {f} |-> fs[g]]]
        ELSE IF read_fails THEN [ret |-> PyNone, files |-> fs]
        ELSE [ret |-> PyStr(fs[f].data), files |-> fs]

\* What can go wrong in lines 86-87: nothing; open raises, and no file is
\* touched; open creates or truncates the file and the write (or the flush
\* when the file is closed) raises, and the file is left empty.
WriteFaults == {"none", "open", "write"}

\* The faults that leave the cache directory as it was.
CleanFaults == {"none", "open"}

\* Lines 82-89.  Either failure is caught and printed as a warning (line 88).
save_to_cache(fs, now, cache_dir, key, data, fault) ==
    LET f == cache_file(cache_dir, key)
        written == IF fault = "write" THEN "" ELSE data
    IN  IF fault = "open" THEN fs
        ELSE [g \in DOMAIN fs \cup {f} |->
                IF g = f THEN [data |-> written, mtime |-> now] ELSE fs[g]]

(***************************************************************************)
(* Diff acquisition and text extraction (lines 311-335).                   *)
(***************************************************************************)
json_char(c) ==
    CASE c = "\"" -> "\\\""
      [] c = "\\" -> "\\\\"
      [] c = "\n" -> "\\n"
      [] OTHER    -> c

\* The body of a JSON string: each character escaped.
RECURSIVE json_escape(_)
json_escape(s) ==
    IF Len(s) = 0 THEN ""
    ELSE IF Len(s) = 1 THEN json_char(s)
    ELSE LET h == Len(s) \div 2
         IN  json_escape(SubSeq(s, 1, h)) \o json_escape(SubSeq(s, h + 1, Len(s)))

json_str(s) == "\"" \o json_escape(s) \o "\""

json_list(parts) == "[" \o join(", ", parts) \o "]"

json_hunk(h) ==
    LET header == IF "header" \in DOMAIN h
                     THEN <<"\"header\": " \o json_str(h.header)>> ELSE <<>>
        body == IF "body" \in DOMAIN h
                   THEN <<"\"body\": " \o json_str(h.body)>> ELSE <<>>
    IN  "{" \o join(", ", header \o body) \o "}"

json_entry(e) ==
    LET header == IF "header" \in DOMAIN e
                     THEN <<"\"header\": " \o json_str(e.header)>> ELSE <<>>
        body == IF "body" \in DOMAIN e
                   THEN <<"\"body\": "
                            \o json_list([i \in 1..Len(e.body) |-> json_hunk(e.body[i])])>>
                   ELSE <<>>
    IN  "{" \o join(", ", header \o body) \o "}"

\* Line 319: json.dumps(diff) of a list of entries.
json_dumps(entries) ==
    json_list([i \in 1..Len(entries) |-> json_entry(entries[i])])

\* tools.python_modules.llm_utils.remove_plus: the "+" that marks an added
\* line is removed from the start of each line.
remove_plus(s) ==
    LET lines == split(s, "\n")
    IN  join("\n", [i \in 1..Len(lines) |->
                      IF startswith(lines[i], "+")
                          THEN Slice(lines[i], 1, Len(lines[i])) ELSE lines[i]])

\* repr of a str: single quotes, unless the string holds one and no double
\* quote; backslash, newline and the quote used are escaped.
repr_char(c, quote) ==
    CASE c = "\\"  -> "\\\\"
      [] c = "\n"  -> "\\n"
      [] c = quote -> "\\" \o quote
      [] OTHER     -> c

RECURSIVE repr_escape(_, _)
repr_escape(s, quote) ==
    IF Len(s) = 0 THEN ""
    ELSE IF Len(s) = 1 THEN repr_char(s, quote)
    ELSE LET h == Len(s) \div 2
         IN  repr_escape(SubSeq(s, 1, h), quote)
                \o repr_escape(SubSeq(s, h + 1, Len(s)), quote)

repr_str(s) ==
    LET quote == IF contains(s, "'") /\ ~contains(s, "\"") THEN "\"" ELSE "'"
    IN  quote \o repr_escape(s, quote) \o quote

\* repr of a hunk, a dict with its fields in the order header, body.
repr_hunk(h) ==
    LET header == IF "header" \in DOMAIN h
                     THEN <<"'header': " \o repr_str(h.header)>> ELSE <<>>
        body == IF "body" \in DOMAIN h
                   THEN <<"'body': " \o repr_str(h.body)>> ELSE <<>>
    IN  "{" \o join(", ", header \o body) \o "}"

\* Line 335: str(diff[0].get('body', [''])).
str_of_body(e) ==
    IF "body" \notin DOMAIN e THEN "['']"
    ELSE "[" \o join(", ", [i \in 1..Len(e.body) |-> repr_hunk(e.body[i])]) \o "]"

\* Line 332 evaluates without raising.
entry_has_shape(e) ==
    /\ "header" \in DOMAIN e
    /\ "body" \in DOMAIN e
    /\ Len(e.body) > 0
    /\ "body" \in DOMAIN e.body[1]

\* Lines 326-335.  A diff loaded from the cache is the str that was saved:
\* diff[0] is its first character, and subscripting that with 'header'
\* raises TypeError in the try block and again in the except block.
extract_text(diff) ==
    IF ~truthy(diff) THEN [kind |-> "exit", code |-> 1]
    ELSE IF diff.type = "str" THEN Raise("TypeError", "string indices must be integers")
    ELSE LET e == diff.items[1]
         IN  IF DOMAIN e = {} THEN [kind |-> "exit", code |-> 1]
             ELSE IF entry_has_shape(e)
                 THEN Return(remove_plus(e.header \o e.body[1].body))
             ELSE IF "header" \notin DOMAIN e THEN Raise("KeyError", "'header'")
             ELSE Return(e.header \o str_of_body(e))

(***************************************************************************)
(* The analysis step (lines 210-234, 359-373) and the report               *)
(* (lines 237-266).                                                        *)
(***************************************************************************)
FALLBACK ==
    "(!) LLM API Error. Performing basic validation check instead.\n\n"
        \o "Summary of issues based on automated checks above.\n"

\* Lines 228-234 with the exception raised again after it is logged.
api_call_except_reraise(e) == e

\* Lines 228-234: except Exception.
api_call_except(e) == Return(PyStr(FALLBACK))

\* Lines 210-234.  completion is what client.completion_with_retrieval does:
\* it returns a response or raises.
api_call(completion) ==
    LET r == IF completion.kind = "raise" THEN completion
             ELSE IF ~truthy(completion.value)
                 THEN Raise("ValueError", "No response from API")
             ELSE completion
    IN  IF r.kind = "raise" THEN api_call_except(r) ELSE r

RECURSIVE issue_lines(_)
issue_lines(issues) ==
    IF Len(issues) = 0 THEN ""
    ELSE "(x) " \o issues[1] \o "\n" \o issue_lines(Tail(issues))

\* Lines 243-257: the comment built from the answer and the check results.
compose_comment(answer_text, results) ==
    "## Validation Results\n\n" \o answer_text
        \o "\n\n### Headers Check\n"
        \o (IF results.headers.valid THEN "(v)" ELSE "(x)") \o " "
        \o results.headers.msg
        \o (IF Len(results.structure.issues) > 0
               THEN "\n\n### Structure Check\n" \o issue_lines(results.structure.issues)
               ELSE "")

(***************************************************************************)
(* What the collaborators can hand to a run.                               *)
(***************************************************************************)
MaxRuns == 2

MaxClock == 25

\* Time passes by a full max age or by an hour more.
TickSteps == {max_age_hours, max_age_hours + 1}

PullUrls == {"https://github.com/o/r/pull/1", "https://github.com/o/r/pull/2"}

Hunk(body) == [header |-> "", body |-> <<[body |-> body]>>]

\* The diffs parse_diff can return: no entry, an article that validates, a
\* draft without closing delimiter.
Diffs ==
    { <<>>,
      <<Hunk("+---\n+date: 2025-01-01\n+entities: [a, b]\n+title: \"A sufficiently long title\"\n+---\n+## Summary\n+## Methodology\n+## Conclusion\n+~~~code~~~\n+## References\n+{{< figure >}}")>>,
      <<Hunk("+---\n+title: Draft\n+## Summary")>> }

Responses == {"The article is sound.", "The sources need work."}

\* What client.completion_with_retrieval can do.
Completions ==
    {Return(PyStr(r)) : r \in Responses}
        \cup {Return(PyNone), Return(PyStr("")), Raise("Exception", "service error")}

NoResults == [headers |-> NotRun, structure |-> NotRun]

NoLoad == [done |-> FALSE]

VARIABLES article, content, vphase, hdr, hdrPrev, structure

VARIABLES clock, files, runs, pc, pull_url, github_actions, diff, text,
          check_results, cached_answer, answer, exit_code, comment, posted, post_calls,
          remote_calls, completion, save_failed, saved, last_load

\* The invocations that run at the same time on one cache file (SpecC).
VARIABLES procs

vvars == <<article, content, vphase, hdr, hdrPrev, structure>>

\* The cache directory and the clock.
cvars == <<clock, files>>

\* One run of main.
rvars == <<runs, pc, pull_url, github_actions, diff, text, check_results,
           cached_answer, answer, exit_code, comment, posted, post_calls, remote_calls,
           completion, save_failed>>

\* History: what the last successful save of each existing file was given to
\* write and when, and the run's last lookup.
hvars == <<saved, last_load>>

vars == <<vvars, cvars, rvars, hvars, procs>>

Terminal == {"done", "exit", "crashed"}

InitRun ==
    /\ clock = 0
    /\ files = <<>>
    /\ runs = 0
    /\ pc = "idle"
    /\ pull_url = ""
    /\ github_actions = ""
    /\ diff = PyNone
    /\ text = ""
    /\ check_results = NoResults
    /\ cached_answer = PyNone
    /\ answer = PyNone
    /\ exit_code = 0
    /\ comment = ""
    /\ posted = 0
    /\ post_calls = 0
    /\ remote_calls = 0
    /\ completion = NotRun
    /\ save_failed = FALSE
    /\ saved = <<>>
    /\ last_load = NoLoad

InitNoProcs == procs = <<>>

InitNoArticle ==
    /\ article = [open |-> FALSE, lines |-> <<>>, close |-> FALSE, parts |-> {}]
    /\ content = ""
    /\ vphase = "off"
    /\ hdr = NotRun
    /\ hdrPrev = NotRun
    /\ structure = NotRun

(***************************************************************************)
(* The validators applied to every article (SpecV).                        *)
(***************************************************************************)
InitV ==
    /\ article \in Articles
    /\ content = Render(article)
    /\ vphase = "input"
    /\ hdr = NotRun
    /\ hdrPrev = NotRun
    /\ structure = NotRun
    /\ InitRun
    /\ InitNoProcs

\* validate_headers applied to the article.
VHeaders ==
    /\ vphase = "input"
    /\ \E order \in HashOrders : hdr' = validate_headers(content, order)
    /\ vphase' = "headers"
    /\ UNCHANGED <<article, content, hdrPrev, structure, cvars, rvars, hvars, procs>>

\* validate_markdown_structure applied to the article.
VStructure ==
    /\ vphase = "headers"
    /\ structure' = validate_markdown_structure(content)
    /\ vphase' = "structure"
    /\ UNCHANGED <<article, content, hdr, hdrPrev, cvars, rvars, hvars, procs>>

\* validate_headers applied to the same article by another process, whose
\* string hashes are its own.
VHeadersAgain ==
    /\ vphase = "structure"
    /\ \E order \in HashOrders : hdr' = validate_headers(content, order)
    /\ hdrPrev' = hdr
    /\ vphase' = "again"
    /\ UNCHANGED <<article, content, structure, cvars, rvars, hvars, procs>>

NextV == VHeaders \/ VStructure \/ VHeadersAgain

SpecV == InitV /\ [][NextV]_vars

(***************************************************************************)
(* main (lines 269-387), one invocation after another (Spec).              *)
(***************************************************************************)
Init == InitNoArticle /\ InitRun /\ InitNoProcs

\* The process starts: lines 270-301.  At most limit invocations are
\* followed.
Begin(url, limit) ==
    /\ pc = "idle"
    /\ runs < limit
    /\ runs' = runs + 1
    /\ pc' = "get_pr"
    /\ pull_url' = url
    /\ UNCHANGED <<vvars, procs, cvars, hvars, github_actions, diff, text,
                   check_results, cached_answer, answer, exit_code, comment,
                   posted, post_calls, remote_calls, completion, save_failed>>

Start(url) == Begin(url, MaxRuns)

\* The process is gone: nothing of it remains but the cache files.
Exit ==
    /\ pc \in Terminal
    /\ pc' = "idle"
    /\ pull_url' = ""
    /\ github_actions' = ""
    /\ diff' = PyNone
    /\ text' = ""
    /\ check_results' = NoResults
    /\ cached_answer' = PyNone
    /\ answer' = PyNone
    /\ exit_code' = 0
    /\ comment' = ""
    /\ posted' = 0
    /\ post_calls' = 0
    /\ remote_calls' = 0
    /\ completion' = NotRun
    /\ save_failed' = FALSE
    /\ last_load' = NoLoad
    /\ UNCHANGED <<vvars, procs, cvars, runs, saved>>

\* Lines 303-309.
GetPullRequest(ok) ==
    /\ pc = "get_pr"
    /\ IF ok THEN pc' = "load_diff" /\ UNCHANGED exit_code
       ELSE pc' = "exit" /\ exit_code' = 1
    /\ UNCHANGED <<vvars, procs, cvars, hvars, runs, pull_url, github_actions, diff,
                   text, check_results, cached_answer, answer, comment,
                   posted, post_calls, remote_calls, completion, save_failed>>

NoSave == [data |-> "", at |-> 0, ok |-> FALSE, of |-> "", replayed |-> FALSE]

Lookup(cache_dir, key, r, read_fails) ==
    LET f == cache_file(cache_dir, key)
    IN  [done |-> TRUE, file |-> f, at |-> clock,
         existed |-> f \in DOMAIN files,
         before |-> IF f \in DOMAIN files THEN files[f] ELSE [data |-> "", mtime |-> 0],
         given |-> IF f \in DOMAIN saved THEN saved[f] ELSE NoSave,
         read_fails |-> read_fails,
         ret |-> r.ret,
         exists_after |-> f \in DOMAIN r.files]

\* The history of saves without the files a lookup has just removed.
Kept(fs) == [g \in DOMAIN saved \cap DOMAIN fs |-> saved[g]]

\* The history after a lookup: a payload that was returned has been replayed.
Looked(cache_dir, key, r) ==
    LET f == cache_file(cache_dir, key)
        kept == Kept(r.files)
    IN  IF r.ret = PyNone THEN kept
        ELSE [kept EXCEPT ![f].replayed = TRUE]

\* Lines 312-313.
LoadDiff(read_fails) ==
    /\ pc = "load_diff"
    /\ LET key == cache_key("diff", pull_url)
           r == load_from_cache(files, clock, "diff_cache", key, read_fails)
       IN  /\ files' = r.files
           /\ diff' = r.ret
           /\ last_load' = Lookup("diff_cache", key, r, read_fails)
           /\ saved' = Looked("diff_cache", key, r)
           /\ pc' = IF r.ret = PyNone THEN "fetch_diff" ELSE "extract"
    /\ UNCHANGED <<vvars, procs, clock, runs, pull_url, github_actions, text,
                   check_results, cached_answer, answer, exit_code, comment,
                   posted, post_calls, remote_calls, completion, save_failed>>

\* The history after a save of data, computed for the source of (a pull
\* request URL, a reviewed text): what the file's last save wrote, and
\* whether that is all it was given.
Saved(cache_dir, key, data, of, fault) ==
    LET f == cache_file(cache_dir, key)
    IN  IF fault = "open" THEN saved
        ELSE [g \in DOMAIN saved \cup {f} |->
                IF g = f THEN [data |-> IF fault = "none" THEN data ELSE "",
                               at |-> clock, ok |-> fault = "none",
                               of |-> of, replayed |-> FALSE]
                ELSE saved[g]]

\* Lines 315-319; the fetch itself may fail, which nothing catches.
FetchDiff(fetched, fault) ==
    /\ pc = "fetch_diff"
    /\ IF fetched.kind = "raise"
          THEN /\ pc' = "crashed"
               /\ exit_code' = 1
               /\ UNCHANGED <<diff, files, saved, save_failed>>
          ELSE LET key == cache_key("diff", pull_url)
                   data == json_dumps(fetched.value)
               IN  /\ diff' = PyList(fetched.value)
                   /\ files' = save_to_cache(files, clock, "diff_cache", key,
                                             data, fault)
                   /\ saved' = Saved("diff_cache", key, data, pull_url, fault)
                   /\ save_failed' = (fault # "none")
                   /\ pc' = "extract"
                   /\ UNCHANGED exit_code
    /\ UNCHANGED <<vvars, procs, clock, last_load, runs, pull_url, github_actions,
                   text, check_results, cached_answer, answer, comment,
                   posted, post_calls, remote_calls, completion>>

\* Lines 326-335.
ExtractText ==
    /\ pc = "extract"
    /\ LET r == extract_text(diff)
       IN  CASE r.kind = "exit" ->
                    pc' = "exit" /\ exit_code' = r.code /\ UNCHANGED text
             [] r.kind = "raise" ->
                    pc' = "crashed" /\ exit_code' = 1 /\ UNCHANGED text
             [] r.kind = "return" ->
                    pc' = "headers" /\ text' = r.value /\ UNCHANGED exit_code
    /\ UNCHANGED <<vvars, procs, cvars, hvars, runs, pull_url, github_actions, diff,
                   check_results, cached_answer, answer, comment, posted, post_calls,
                   remote_calls, completion, save_failed>>

\* Lines 344-347.
ValidateHeaders(order) ==
    /\ pc = "headers"
    /\ LET r == validate_headers(text, order)
       IN  IF r.kind = "raise"
              THEN pc' = "crashed" /\ exit_code' = 1 /\ UNCHANGED check_results
              ELSE /\ check_results' = [check_results EXCEPT !.headers = r.value]
                   /\ pc' = "structure"
                   /\ UNCHANGED exit_code
    /\ UNCHANGED <<vvars, procs, cvars, hvars, runs, pull_url, github_actions, diff,
                   text, cached_answer, answer, comment, posted, post_calls, remote_calls,
                   completion, save_failed>>

\* Lines 349-357.
ValidateStructure ==
    /\ pc = "structure"
    /\ LET r == validate_markdown_structure(text)
       IN  IF r.kind = "raise"
              THEN pc' = "crashed" /\ exit_code' = 1 /\ UNCHANGED check_results
              ELSE /\ check_results' = [check_results EXCEPT !.structure = r.value]
                   /\ pc' = "load_llm"
                   /\ UNCHANGED exit_code
    /\ UNCHANGED <<vvars, procs, cvars, hvars, runs, pull_url, github_actions, diff,
                   text, cached_answer, answer, comment, posted, post_calls, remote_calls,
                   completion, save_failed>>

\* Line 363 with the cached answer never used.
use_cached_never(cached) == FALSE

\* Line 363: if cached_answer.
use_cached(cached) == truthy(cached)

\* Line 360 with the whole text hashed.
api_cache_key_whole(t) == cache_key("llm", t)

\* Line 360.
api_cache_key(t) == cache_key("llm", Slice(t, 0, KEY_TEXT_LEN))

\* Lines 360-367.
LoadLlm(read_fails) ==
    /\ pc = "load_llm"
    /\ LET key == api_cache_key(text)
           r == load_from_cache(files, clock, "api_cache", key, read_fails)
       IN  /\ files' = r.files
           /\ cached_answer' = r.ret
           /\ last_load' = Lookup("api_cache", key, r, read_fails)
           /\ saved' = Looked("api_cache", key, r)
           /\ IF use_cached(r.ret)
                 THEN answer' = r.ret /\ pc' = "comment"
                 ELSE UNCHANGED answer /\ pc' = "api_call"
    /\ UNCHANGED <<vvars, procs, clock, runs, pull_url, github_actions, diff,
                   text, check_results, exit_code, comment, posted, post_calls,
                   remote_calls, completion, save_failed>>

\* Lines 368-373.
ApiCall(c, fault) ==
    /\ pc = "api_call"
    /\ LET r == api_call(c)
           key == api_cache_key(text)
       IN  IF r.kind = "raise"
              THEN /\ pc' = "crashed"
                   /\ exit_code' = 1
                   /\ UNCHANGED <<answer, files, saved, save_failed>>
              ELSE /\ answer' = r.value
                   /\ files' = save_to_cache(files, clock, "api_cache", key,
                                             r.value.s, fault)
                   /\ saved' = Saved("api_cache", key, r.value.s, text, fault)
                   /\ save_failed' = (fault # "none")
                   /\ pc' = "comment"
                   /\ UNCHANGED exit_code
    /\ remote_calls' = remote_calls + 1
    /\ completion' = c
    /\ UNCHANGED <<vvars, procs, clock, last_load, runs, pull_url, github_actions,
                   diff, text, check_results, cached_answer, comment, posted, post_calls>>

\* Line 261 with the comment posted in every environment.
should_post_always(env) == TRUE

\* Line 261: os.environ.get("GITHUB_ACTIONS") == "true".
should_post(env) == env = "true"

\* Lines 381-387 and create_comment_on_pr (lines 237-266): the comment is
\* posted only when os.environ.get("GITHUB_ACTIONS"), env here, is "true"
\* (line 261), and a failing post is logged (lines 263-265).  post_calls
\* counts the calls of create_issue_comment, posted those that succeeded.
CreateComment(env, post_fails) ==
    /\ pc = "comment"
    /\ comment' = compose_comment(answer.s, check_results)
    /\ github_actions' = env
    /\ post_calls' = IF should_post(env) THEN post_calls + 1 ELSE post_calls
    /\ posted' = IF should_post(env) /\ ~post_fails THEN posted + 1 ELSE posted
    /\ pc' = "done"
    /\ exit_code' = 0
    /\ UNCHANGED <<vvars, procs, cvars, hvars, runs, pull_url, diff, text,
                   check_results, cached_answer, answer, remote_calls,
                   completion, save_failed>>

\* Time passes between two invocations.
Tick(d) ==
    /\ pc = "idle"
    /\ clock + d <= MaxClock
    /\ clock' = clock + d
    /\ UNCHANGED <<vvars, procs, files, rvars, hvars>>

Next ==
    \/ \E url \in PullUrls : Start(url)
    \/ \E ok \in BOOLEAN : GetPullRequest(ok)
    \/ \E read_fails \in BOOLEAN : LoadDiff(read_fails)
    \/ \E d \in Diffs, fault \in CleanFaults : FetchDiff(Return(d), fault)
    \/ FetchDiff(Raise("Exception", "network"), "none")
    \/ ExtractText
    \/ \E order \in HashOrders : ValidateHeaders(order)
    \/ ValidateStructure
    \/ \E read_fails \in BOOLEAN : LoadLlm(read_fails)
    \/ \E c \in Completions, fault \in CleanFaults : ApiCall(c, fault)
    \/ \E env \in {"true", ""}, post_fails \in BOOLEAN : CreateComment(env, post_fails)
    \/ Exit
    \/ \E d \in TickSteps : Tick(d)

Spec == Init /\ [][Next]_vars

(***************************************************************************)
(* Invocations that run at the same time on one cache file (SpecC):        *)
(* load_from_cache and save_to_cache, one system call at a time.  A file   *)
(* is its content, its modification time and its inode; an open file is    *)
(* held by its inode, so that a file removed under a reader can still be   *)
(* read and a write to a removed file is not seen.                         *)
(***************************************************************************)
Procs == {"p1", "p2"}

\* The file both invocations use: one key of the llm namespace.
SharedFile == cache_file("api_cache", cache_key("llm", "text"))

\* What an invocation computes and saves after a miss.
Payload(p) == IF p = "p1" THEN "The article is sound." ELSE "The sources need work."

NoProc == [pc |-> "idle", ret |-> PyNone, fd |-> <<>>, runs |-> 0]

InitC ==
    /\ InitNoArticle
    /\ InitRun
    /\ procs = [p \in Procs |-> NoProc]

\* The frame of a step of invocation p.
Step(p, pc1, ret1, fd1) ==
    procs' = [procs EXCEPT ![p] = [@ EXCEPT !.pc = pc1, !.ret = ret1, !.fd = fd1]]

\* A new invocation reaches its load_from_cache call (line 361).
Invoke(p) ==
    /\ procs[p].pc \in {"idle", "done"}
    /\ procs[p].runs < MaxRuns
    /\ procs' = [procs EXCEPT ![p] = [pc |-> "exists", ret |-> PyNone, fd |-> <<>>,
                                      runs |-> @.runs + 1]]
    /\ UNCHANGED <<vvars, cvars, rvars, hvars>>

\* Lines 67-68: os.path.exists.
OsPathExists(p) ==
    /\ procs[p].pc = "exists"
    /\ IF SharedFile \in DOMAIN files
          THEN Step(p, "getmtime", PyNone, <<>>)
          ELSE Step(p, "open_w", PyNone, <<>>)
    /\ UNCHANGED <<vvars, cvars, rvars, hvars>>

\* Lines 70-71: os.path.getmtime raises FileNotFoundError when the file is
\* gone; the call is in no try block, and main catches nothing either.
OsPathGetmtime(p) ==
    /\ procs[p].pc = "getmtime"
    /\ IF SharedFile \notin DOMAIN files
          THEN Step(p, "aborted", PyNone, <<>>)
       ELSE IF is_stale(clock - files[SharedFile].mtime)
          THEN Step(p, "remove", PyNone, <<>>)
       ELSE Step(p, "open_r", PyNone, <<>>)
    /\ UNCHANGED <<vvars, cvars, rvars, hvars>>

\* Lines 72-73: os.remove raises FileNotFoundError when the file is gone.
OsRemove(p) ==
    /\ procs[p].pc = "remove"
    /\ IF SharedFile \notin DOMAIN files
          THEN Step(p, "aborted", PyNone, <<>>) /\ UNCHANGED files
          ELSE /\ Step(p, "open_w", PyNone, <<>>)
               /\ files' = [g \in DOMAIN files \ {SharedFile} |-> files[g]]
    /\ UNCHANGED <<vvars, clock, rvars, hvars>>

\* Line 76: open(cache_file, 'r'); when it raises, line 78 returns None.
OpenForRead(p) ==
    /\ procs[p].pc = "open_r"
    /\ IF SharedFile \notin DOMAIN files
          THEN Step(p, "open_w", PyNone, <<>>)
          ELSE Step(p, "read", PyNone, files[SharedFile])
    /\ UNCHANGED <<vvars, cvars, rvars, hvars>>

\* Line 77: f.read() gives what the opened inode holds now; a hit, and the
\* invocation saves nothing.
Read(p) ==
    /\ procs[p].pc = "read"
    /\ LET held == procs[p].fd
           data == IF SharedFile \in DOMAIN files /\ files[SharedFile].ino = held.ino
                      THEN files[SharedFile].data ELSE held.data
       IN  Step(p, "done", PyStr(data), <<>>)
    /\ UNCHANGED <<vvars, cvars, rvars, hvars>>

\* Line 86, after a miss: open(cache_file, 'w') creates the file or
\* truncates the one that is there.
OpenForWrite(p) ==
    /\ procs[p].pc = "open_w"
    /\ LET ino == IF SharedFile \in DOMAIN files THEN files[SharedFile].ino
                  ELSE <<p, procs[p].runs>>
           file == [data |-> "", mtime |-> clock, ino |-> ino]
       IN  /\ files' = [g \in DOMAIN files \cup {SharedFile} |->
                          IF g = SharedFile THEN file ELSE files[g]]
           /\ Step(p, "write", PyNone, file)
    /\ UNCHANGED <<vvars, clock, rvars, hvars>>

\* Line 87: f.write(data) goes to the opened inode.
Write(p) ==
    /\ procs[p].pc = "write"
    /\ IF SharedFile \in DOMAIN files /\ files[SharedFile].ino = procs[p].fd.ino
          THEN files' = [files EXCEPT ![SharedFile] =
                            [data |-> Payload(p), mtime |-> clock, ino |-> @.ino]]
          ELSE UNCHANGED files
    /\ Step(p, "done", PyNone, <<>>)
    /\ UNCHANGED <<vvars, clock, rvars, hvars>>

\* Time passes while the invocations run.
Elapse(d) ==
    /\ clock + d <= MaxClock
    /\ clock' = clock + d
    /\ UNCHANGED <<vvars, files, rvars, hvars, procs>>

NextC ==
    \/ \E p \in Procs :
        \/ Invoke(p)
        \/ OsPathExists(p)
        \/ OsPathGetmtime(p)
        \/ OsRemove(p)
        \/ OpenForRead(p)
        \/ Read(p)
        \/ OpenForWrite(p)
        \/ Write(p)
    \/ \E d \in TickSteps : Elapse(d)

SpecC == InitC /\ [][NextC]_vars

(***************************************************************************)
(* main on diffs whose first entry has every shape line 332 can meet       *)
(* (SpecX), without I/O faults.                                            *)
(***************************************************************************)
FILE_HEADER == "diff --git a/post.md b/post.md"

\* An entry as line 332 expects it, one with no hunks, one with no body
\* field, one whose hunk has no body field, one with no header field.
ShapeDiffs ==
    { <<[header |-> FILE_HEADER, body |-> <<[body |-> "+---\n+title: Draft\n+## Summary"]>>]>>,
      <<[header |-> FILE_HEADER, body |-> <<>>]>>,
      <<[header |-> FILE_HEADER]>>,
      <<[header |-> FILE_HEADER, body |-> <<[header |-> "@@ -0,0 +1 @@"]>>]>>,
      <<[body |-> <<[body |-> "+---\n+title: Draft\n+## Summary"]>>]>> }

NextX ==
    \/ \E url \in PullUrls : Start(url)
    \/ GetPullRequest(TRUE)
    \/ LoadDiff(FALSE)
    \/ \E d \in ShapeDiffs : FetchDiff(Return(d), "none")
    \/ ExtractText
    \/ \E order \in HashOrders : ValidateHeaders(order)
    \/ ValidateStructure
    \/ LoadLlm(FALSE)
    \/ \E c \in Completions : ApiCall(c, "none")
    \/ \E env \in {"true", ""} : CreateComment(env, FALSE)
    \/ Exit
    \/ \E d \in TickSteps : Tick(d)

SpecX == Init /\ [][NextX]_vars

(***************************************************************************)
(* main with every outcome of a cache write (SpecF): reads succeed.        *)
(***************************************************************************)
NextF ==
    \/ \E url \in PullUrls : Start(url)
    \/ GetPullRequest(TRUE)
    \/ LoadDiff(FALSE)
    \/ \E d \in Diffs, fault \in WriteFaults : FetchDiff(Return(d), fault)
    \/ ExtractText
    \/ \E order \in HashOrders : ValidateHeaders(order)
    \/ ValidateStructure
    \/ LoadLlm(FALSE)
    \/ \E c \in Completions, fault \in WriteFaults : ApiCall(c, fault)
    \/ CreateComment("", FALSE)
    \/ Exit
    \/ \E d \in TickSteps : Tick(d)

SpecF == Init /\ [][NextF]_vars

(***************************************************************************)
(* Runs that follow one another on texts longer than the prefix the llm    *)
(* key is made of (SpecR), without I/O faults; the clock moves by about    *)
(* half of max_age_hours, so that an entry can be replayed and then found  *)
(* stale.                                                                  *)
(***************************************************************************)
MaxReplays == 3

RECURSIVE Repeat(_, _)
Repeat(s, n) ==
    IF n = 0 THEN ""
    ELSE IF n = 1 THEN s
    ELSE LET h == n \div 2 IN Repeat(s, h) \o Repeat(s, n - h)

\* KEY_TEXT_LEN characters.
PAD == Repeat("a", KEY_TEXT_LEN)

\* Two texts that differ only after their first KEY_TEXT_LEN characters,
\* and one that differs from both within them.
LongDiffs ==
    { <<Hunk("+" \o PAD \o "b")>>,
      <<Hunk("+" \o PAD \o "c")>>,
      <<Hunk("+b" \o PAD)>> }

HalfSteps == {max_age_hours \div 2, max_age_hours \div 2 + 1}

NextR ==
    \/ \E url \in PullUrls : Begin(url, MaxReplays)
    \/ GetPullRequest(TRUE)
    \/ LoadDiff(FALSE)
    \/ \E d \in LongDiffs : FetchDiff(Return(d), "none")
    \/ ExtractText
    \/ \E order \in HashOrders : ValidateHeaders(order)
    \/ ValidateStructure
    \/ LoadLlm(FALSE)
    \/ \E c \in {Return(PyStr("The article is sound.")),
                 Raise("Exception", "service error")} : ApiCall(c, "none")
    \/ CreateComment("", FALSE)
    \/ Exit
    \/ \E d \in HalfSteps : Tick(d)

SpecR == Init /\ [][NextR]_vars

LookupAge == last_load.at - last_load.given.at

(***************************************************************************)
(* C1: a load_from_cache that finds the file a save wrote, no older than   *)
(* max_age_hours, returns the payload that save was given and leaves the   *)
(* file as it was (the save and the read succeeding); a load of a file     *)
(* older than max_age_hours returns None and removes it; a file exists     *)
(* only from a save on, so a lookup with no save since the removal finds   *)
(* nothing and returns None.                                               *)
(***************************************************************************)
C1_CacheRoundTrip ==
    /\ DOMAIN files = DOMAIN saved
    /\ last_load.done =>
        /\ (/\ last_load.existed
            /\ last_load.given.ok
            /\ LookupAge <= max_age_hours
            /\ ~last_load.read_fails) =>
                /\ last_load.ret = PyStr(last_load.given.data)
                /\ last_load.exists_after
        /\ (last_load.existed /\ LookupAge > max_age_hours) =>
                /\ last_load.ret = PyNone
                /\ ~last_load.exists_after
        /\ ~last_load.existed =>
                /\ last_load.ret = PyNone
                /\ ~last_load.exists_after
        /\ (last_load.existed /\ LookupAge <= max_age_hours) =>
                last_load.exists_after

\* A payload read back when it is exactly max_age_hours old.
C1_Witness ==
    /\ last_load.done
    /\ last_load.existed
    /\ LookupAge = max_age_hours
    /\ last_load.ret = PyStr(last_load.given.data)
    /\ last_load.given.data # ""
    /\ last_load.exists_after

\* A payload older than max_age_hours, refused and removed.
C1_WitnessStale ==
    /\ last_load.done
    /\ last_load.existed
    /\ LookupAge > max_age_hours
    /\ last_load.ret = PyNone
    /\ last_load.file \notin DOMAIN files

CompletionFailed ==
    /\ completion # NotRun
    /\ \/ completion.kind = "raise"
       \/ ~truthy(completion.value)

ApiFile == cache_file("api_cache", cache_key("llm", Slice(text, 0, KEY_TEXT_LEN)))

FreshHit(dir) ==
    /\ last_load.done
    /\ last_load.file[1] = dir
    /\ last_load.existed
    /\ last_load.given.ok
    /\ LookupAge <= max_age_hours
    /\ ~last_load.read_fails

(***************************************************************************)
(* C2: when the completion call raises or returns nothing, the analysis is *)
(* the fallback string, which holds "LLM API Error"; the run goes on to    *)
(* the report and ends with exit code 0; the fallback is what the llm      *)
(* cache then holds (the write succeeding), and a run that finds it there, *)
(* no older than max_age_hours, answers with it without a remote call.     *)
(***************************************************************************)
C2_FallbackIsCached ==
    /\ CompletionFailed =>
        /\ answer = PyStr(FALLBACK)
        /\ contains(answer.s, "LLM API Error")
        /\ pc \in {"comment", "done"}
        /\ pc = "done" => exit_code = 0 /\ contains(comment, FALLBACK)
        /\ ~save_failed =>
                /\ ApiFile \in DOMAIN files
                /\ files[ApiFile] = [data |-> FALLBACK, mtime |-> clock]
    /\ (FreshHit("api_cache") /\ last_load.given.data = FALLBACK) =>
        /\ answer = PyStr(FALLBACK)
        /\ remote_calls = 0
        /\ pc \in {"comment", "done"}

\* A second run that answers with the fallback the first run cached.
C2_Witness ==
    /\ runs = 2
    /\ pc = "done"
    /\ FreshHit("api_cache")
    /\ last_load.given.data = FALLBACK
    /\ answer = PyStr(FALLBACK)
    /\ remote_calls = 0

(***************************************************************************)
(* C3: the remote service is called at most once per run, and only after   *)
(* the llm cache was looked up, under the key of the text's first 1000     *)
(* characters, and gave nothing; when the lookup finds an entry no older   *)
(* than max_age_hours the remote service is not called in that run and the *)
(* run's analysis is the cached payload.                                   *)
(***************************************************************************)
C3_HitSkipsRemote ==
    /\ remote_calls <= 1
    /\ remote_calls = 1 =>
        /\ last_load.done
        /\ last_load.file = ApiFile
        /\ ~truthy(last_load.ret)
    /\ FreshHit("api_cache") =>
        /\ last_load.file = ApiFile
        /\ remote_calls = 0
        /\ completion = NotRun
        /\ answer = PyStr(last_load.before.data)
        /\ pc \in {"comment", "done"}

\* A run whose analysis is a response an earlier run cached.
C3_Witness ==
    /\ pc = "done"
    /\ FreshHit("api_cache")
    /\ answer.s \in Responses
    /\ remote_calls = 0

(***************************************************************************)
(* C4 (as claimed): once a run has its reviewed text, it goes through the  *)
(* analysis and the report and ends with exit code 0, whatever the         *)
(* validators find.  A text with a closing delimiter makes                 *)
(* validate_markdown_structure raise NameError, which ends the process.    *)
(***************************************************************************)
C4_Claim ==
    (pc \in Terminal /\ check_results.headers # NotRun) =>
        /\ pc = "done"
        /\ exit_code = 0
        /\ answer # PyNone

(***************************************************************************)
(* C11 (as claimed): a run whose diff has no entries ends with a nonzero   *)
(* exit code, having validated nothing, called no remote analysis and      *)
(* posted nothing; and a run ends with a nonzero exit code only when the   *)
(* pull request or its diff could not be had or the diff is empty.  A run  *)
(* on a complete article ends with exit code 1 on the NameError of         *)
(* validate_markdown_structure, and a run that finds its diff in the cache *)
(* on the TypeError of line 335.                                           *)
(***************************************************************************)
C11_Claim ==
    /\ (pc \in Terminal /\ diff = PyList(<<>>)) =>
        /\ exit_code # 0
        /\ check_results = NoResults
        /\ remote_calls = 0
        /\ completion = NotRun
        /\ post_calls = 0
    /\ (pc \in Terminal /\ exit_code # 0) => ~truthy(diff)

(***************************************************************************)
(* C12: create_issue_comment is called in a run if and only if             *)
(* GITHUB_ACTIONS is "true", at most once, and only once both validations  *)
(* and the analysis have given their results; when the call fails the run  *)
(* still ends with exit code 0.                                            *)
(***************************************************************************)
C12_PostedOnlyInCI ==
    /\ posted <= post_calls
    /\ post_calls <= 1
    /\ post_calls = 1 =>
        /\ pc = "done"
        /\ github_actions = "true"
        /\ check_results.headers # NotRun
        /\ check_results.structure # NotRun
        /\ answer # PyNone
    /\ pc = "done" =>
        /\ (post_calls = 1) = (github_actions = "true")
        /\ exit_code = 0

\* A run in CI whose posting call failed.
C12_Witness ==
    /\ pc = "done"
    /\ github_actions = "true"
    /\ post_calls = 1
    /\ posted = 0
    /\ exit_code = 0

\* A run in CI whose comment was posted.
C12_WitnessPosted == pc = "done" /\ posted = 1 /\ github_actions = "true"

(***************************************************************************)
(* C13 (as claimed): a run that finds the diff of its pull request in the  *)
(* cache, as an earlier run saved it and no older than max_age_hours,      *)
(* fetches nothing, has the same list of entries the earlier run fetched,  *)
(* builds the same reviewed text from it and goes on to the validations.   *)
(* The cached payload is the JSON text and is never decoded: diff is a     *)
(* str, and line 332 and then line 335 raise TypeError on it.              *)
(***************************************************************************)
C13_Claim ==
    FreshHit("diff_cache") =>
        /\ pc # "fetch_diff"
        /\ diff.type = "list"
        /\ json_dumps(diff.items) = last_load.given.data
        /\ pc \notin {"extract", "exit"} =>
                /\ text = extract_text(diff).value
                /\ pc = "crashed" => check_results.headers # NotRun

(***************************************************************************)
(* C14 (as claimed): with two invocations at work on one cache file, every *)
(* load_from_cache call returns None or a str, and no invocation is ended  *)
(* by what the other does to the file.  Between os.path.exists and         *)
(* os.path.getmtime, or os.remove, the other invocation can remove the     *)
(* file: FileNotFoundError is raised outside any try block.                *)
(***************************************************************************)
C14_Claim ==
    \A p \in DOMAIN procs :
        /\ procs[p].pc # "aborted"
        /\ procs[p].ret.type \in {"None", "str"}

\* The run's diff is a list whose first entry line 332 cannot read.
MalformedFirst ==
    /\ diff.type = "list"
    /\ Len(diff.items) > 0
    /\ DOMAIN diff.items[1] # {}
    /\ ~entry_has_shape(diff.items[1])

(***************************************************************************)
(* C15 (as claimed): when the first entry of the diff has not the shape    *)
(* line 332 reads, the reviewed text is the string form of the entry and   *)
(* the run goes on to validation, analysis and report.  The except block   *)
(* itself reads diff[0]['header'] (line 335): with no header field it      *)
(* raises KeyError, which ends the run.                                    *)
(***************************************************************************)
C15_Claim ==
    (MalformedFirst /\ pc # "extract") =>
        /\ pc \notin {"crashed", "exit"}
        /\ text # ""
        /\ pc = "done" =>
                /\ check_results.headers # NotRun
                /\ check_results.structure # NotRun
                /\ answer # PyNone

\* The entries the except block does recover: the run reaches its end.
C15_Recovered ==
    /\ MalformedFirst
    /\ pc = "done"
    /\ text = FILE_HEADER \o "[]"

(***************************************************************************)
(* C16 (as claimed): a save_to_cache that cannot write creates and changes *)
(* no cache file, so that every file holds what a save wrote in full, and  *)
(* a later load_from_cache of that key returns None unless a save has      *)
(* succeeded since; the run whose save failed goes on with what it         *)
(* computed.  When open succeeds and the write fails, the file is left     *)
(* empty, and the next load returns the empty string.                      *)
(***************************************************************************)
C16_Claim ==
    /\ \A f \in DOMAIN saved : saved[f].ok
    /\ \A f \in DOMAIN files : files[f].data # ""
    /\ last_load.done =>
        (last_load.ret # PyNone => last_load.given.ok)
    /\ save_failed =>
        /\ diff.type = "list"
        /\ remote_calls = 1 => answer = api_call(completion).value

\* The run after a diff save that failed in the write: it reads the empty
\* file and stops with "No diff content found".
C16_NextRunExits ==
    /\ pc = "exit"
    /\ exit_code = 1
    /\ last_load.done
    /\ last_load.existed
    /\ ~last_load.given.ok
    /\ diff = PyStr("")

\* The lookup of the reviewed text's analysis, once this run has made it.
LlmLookup == last_load.done /\ last_load.file[1] = "api_cache"

(***************************************************************************)
(* C17: an analysis kept in the cache (the fallback text included) is      *)
(* replayed only while the time since it was saved is at most              *)
(* max_age_hours: every file's modification time is the time of its save,  *)
(* whatever lookups have hit it since; the first lookup made later than    *)
(* that removes the file, and the run that made it calls the remote        *)
(* service again.                                                          *)
(***************************************************************************)
C17_StickyWithinMaxAge ==
    /\ \A f \in DOMAIN files :
        f \in DOMAIN saved /\ files[f].mtime = saved[f].at
    /\ (LlmLookup /\ last_load.ret # PyNone) =>
        /\ LookupAge <= max_age_hours
        /\ last_load.file \in DOMAIN files
        /\ files[last_load.file].mtime = last_load.before.mtime
    /\ (LlmLookup /\ last_load.existed /\ LookupAge > max_age_hours) =>
        /\ last_load.ret = PyNone
        /\ ~last_load.exists_after
        /\ pc \in {"api_call", "comment", "done"}
        /\ pc \in {"comment", "done"} =>
            /\ remote_calls = 1
            /\ answer = api_call(completion).value

\* A fallback that was replayed once is found too old by a later run, which
\* calls the remote service again.
C17_Witness ==
    /\ pc = "done"
    /\ LlmLookup
    /\ last_load.existed
    /\ LookupAge > max_age_hours
    /\ last_load.given.replayed
    /\ last_load.given.data = FALLBACK
    /\ last_load.at - last_load.before.mtime > max_age_hours
    /\ remote_calls = 1

\* The part of a text the llm key is made of.
KeyPrefix(t) == Slice(t, 0, KEY_TEXT_LEN)

(***************************************************************************)
(* C18: the analysis a run reports is either what the remote call of this  *)
(* run gave for its own text (the fallback if it failed), or the analysis  *)
(* kept for a text with the same first KEY_TEXT_LEN characters, without a  *)
(* remote call.  An entry is filed under the first KEY_TEXT_LEN characters *)
(* of the text it was computed for: a text looks up the entry of every     *)
(* text that agrees with it on them and of no text that differs from it    *)
(* within them (md5 taken as free of collisions).                          *)
(***************************************************************************)
C18_PrefixKeyed ==
    /\ pc \in {"comment", "done"} =>
        \/ /\ remote_calls = 1
           /\ answer = api_call(completion).value
        \/ /\ remote_calls = 0
           /\ LlmLookup
           /\ last_load.existed
           /\ last_load.file = ApiFile
           /\ KeyPrefix(last_load.given.of) = KeyPrefix(text)
           /\ answer = PyStr(last_load.given.data)
    /\ \A f \in DOMAIN saved :
        f[1] = "api_cache" =>
            /\ f = cache_file("api_cache",
                              cache_key("llm", KeyPrefix(saved[f].of)))
            /\ pc \in {"load_llm", "api_call", "comment", "done"} =>
                (KeyPrefix(saved[f].of) = KeyPrefix(text) <=> f = ApiFile)

\* A run reports, without a remote call, the analysis computed for another
\* text with the same first KEY_TEXT_LEN characters.
C18_Witness ==
    /\ pc = "done"
    /\ remote_calls = 0
    /\ LlmLookup
    /\ last_load.given.of # text
    /\ Len(text) > KEY_TEXT_LEN
    /\ KeyPrefix(last_load.given.of) = KeyPrefix(text)
    /\ answer = PyStr(last_load.given.data)

\* Texts that differ within their first KEY_TEXT_LEN characters are kept in
\* two entries at once.
C18_WitnessApart ==
    /\ pc = "done"
    /\ \E f, g \in DOMAIN files :
        /\ f # g
        /\ f[1] = "api_cache" /\ g[1] = "api_cache"
        /\ KeyPrefix(saved[f].of) # KeyPrefix(saved[g].of)

(***************************************************************************)
(* What an article is, read off the record it was drawn as (not off the    *)
(* validators' own parsing).                                               *)
(***************************************************************************)
HasLine(a, l) == \E i \in 1..Len(a.lines) : a.lines[i] = l

HasKey(a, k) == \E i \in 1..Len(a.lines) : a.lines[i] \in FieldLines[k]

IndexOfKey(a, k) == CHOOSE i \in 1..Len(a.lines) : a.lines[i] \in FieldLines[k]

Delimited(a) == a.open /\ a.close

LackedFields(a) == {k \in required_fields : ~HasKey(a, k)}

\* The value of the title line with its surrounding quotes removed.
UnquotedTitle(a) ==
    LET v == Slice(a.lines[IndexOfKey(a, "title")], 7, 1000)
    IN  IF Len(v) >= 2 /\ IsQuote(CharAt(v, 0)) /\ IsQuote(CharAt(v, Len(v) - 1))
            THEN Slice(v, 1, Len(v) - 1)
        ELSE v

HeadersDone == vphase # "input"

StructureDone == vphase \in {"structure", "again"}

MISSING_PREFIX == "Missing required YAML headers: "

\* The field names a missing-headers message lists.
ListedNames(msg) ==
    LET names == split(Slice(msg, Len(MISSING_PREFIX), Len(msg)), ", ")
    IN  {names[i] : i \in 1..Len(names)}

\* How many of the four structure checks the article's body fails.
FailedChecks(a) ==
    (IF {1, 2, 3} \subseteq a.parts THEN 0 ELSE 1)
    + (IF 4 \in a.parts THEN 0 ELSE 1)
    + (IF 5 \in a.parts THEN 0 ELSE 1)
    + (IF 6 \in a.parts THEN 0 ELSE 1)

(***************************************************************************)
(* C5 (as claimed): validate_markdown_structure reports exactly one issue  *)
(* per failed check among the four, and valid is true iff there is no      *)
(* issue.  The code raises NameError at line 196 instead (re is no global  *)
(* of the module), so the claim fails for every article that has a body.   *)
(***************************************************************************)
C5_Claim ==
    (StructureDone /\ Delimited(article)) =>
        /\ structure.kind = "return"
        /\ Len(structure.value.issues) = FailedChecks(article)
        /\ structure.value.valid = (structure.value.issues = <<>>)

(***************************************************************************)
(* C6 (as claimed): with both delimiters and required fields lacking, the  *)
(* result is valid=false with a message that lists exactly the lacking     *)
(* names, and the same article always yields the same message.  The order  *)
(* of the names is that of a Python set, so two validations of one article *)
(* can differ.                                                             *)
(***************************************************************************)
C6_Claim ==
    (vphase = "again" /\ Delimited(article) /\ LackedFields(article) # {}) =>
        /\ hdr.value.valid = FALSE
        /\ startswith(hdr.value.msg, MISSING_PREFIX)
        /\ ListedNames(hdr.value.msg) = LackedFields(article)
        /\ hdr.value.msg = hdrPrev.value.msg

(***************************************************************************)
(* C7 (as claimed): the title is accepted iff its value without the        *)
(* surrounding quotes has at least 10 characters.  Stated for the articles *)
(* that reach the title check with the title line as the only line that    *)
(* holds "title:".  The pattern's greedy group keeps the closing quote, so *)
(* a quoted 9-character title counts 10 and is accepted.                   *)
(***************************************************************************)
C7_Claim ==
    (/\ HeadersDone
     /\ Delimited(article)
     /\ HasLine(article, DATE_OK)
     /\ HasLine(article, ENTITIES_OK)
     /\ HasKey(article, "title")
     /\ ~HasKey(article, "subtitle")) =>
        hdr.value.valid = (Len(UnquotedTitle(article)) >= 10)

WellFormed(a) ==
    /\ Delimited(a)
    /\ HasLine(a, DATE_OK)
    /\ HasLine(a, ENTITIES_OK)
    /\ HasLine(a, TITLE_OK)

(***************************************************************************)
(* C8 (as claimed): every well-formed article validates, whatever other    *)
(* key: value lines it holds and in whatever order.  The title pattern     *)
(* matches inside "subtitle:", so a subtitle line before the title line    *)
(* is taken for the title.                                                 *)
(***************************************************************************)
C8_Claim == (HeadersDone /\ WellFormed(article)) => hdr.value.valid = TRUE

OPENING_MSG == "Missing YAML frontmatter delimiter '---' at start"

CLOSING_MSG == "Missing closing YAML delimiter '---'"

DATE_MSG == "Invalid or missing 'date' header (must be YYYY-MM-DD format)"

\* The text starts with the delimiter; the delimiter occurs again after it.
TextOpens(t) == Len(t) >= 3 /\ SubSeq(t, 1, 3) = "---"

TextCloses(t) == \E i \in 4..(Len(t) - 2) : SubSeq(t, i, i + 2) = "---"

(***************************************************************************)
(* C9: validate_headers returns one (valid, message) pair, that of the     *)
(* first failing check in the order opening delimiter, closing delimiter,  *)
(* required fields, date, entities, title.  No opening delimiter gives the *)
(* opening message; an opening delimiter without a later one gives         *)
(* valid=false with the closing message, whatever the front matter holds.  *)
(***************************************************************************)
C9_FirstFailingCheck ==
    HeadersDone =>
        /\ hdr.kind = "return"
        /\ hdr.value.valid \in BOOLEAN
        /\ ~TextOpens(content) =>
                hdr.value = [valid |-> FALSE, msg |-> OPENING_MSG]
        /\ (TextOpens(content) /\ ~TextCloses(content)) =>
                hdr.value = [valid |-> FALSE, msg |-> CLOSING_MSG]
        /\ (Delimited(article) /\ LackedFields(article) # {}) =>
                /\ ~hdr.value.valid
                /\ startswith(hdr.value.msg, MISSING_PREFIX)
        /\ (/\ Delimited(article)
            /\ LackedFields(article) = {}
            /\ ~HasLine(article, DATE_OK)) =>
                hdr.value = [valid |-> FALSE, msg |-> DATE_MSG]
        /\ (Delimited(article) /\ LackedFields(article) = {}) =>
                hdr.value.msg \notin {OPENING_MSG, CLOSING_MSG}

C9_Witness ==
    /\ HeadersDone
    /\ TextOpens(content) /\ ~TextCloses(content)
    /\ LackedFields(article) # {}
    /\ hdr.value.msg = CLOSING_MSG

EntitiesCheckFails(a) ==
    /\ Delimited(a)
    /\ LackedFields(a) = {}
    /\ HasLine(a, DATE_OK)
    /\ HasLine(a, ENTITIES_OPEN)

ENTITIES_ERROR_MSG == "Error validating headers: Invalid YAML in entities section"

(***************************************************************************)
(* C10: validate_headers returns a (valid=false, message) pair and raises  *)
(* nothing when validate_entities_section raises its malformed-entities    *)
(* error; for every article the result is a pair.                          *)
(***************************************************************************)
C10_ExceptionBecomesVerdict ==
    HeadersDone =>
        /\ hdr.kind = "return"
        /\ EntitiesCheckFails(article) =>
                hdr.value = [valid |-> FALSE, msg |-> ENTITIES_ERROR_MSG]

C10_Witness ==
    /\ HeadersDone
    /\ EntitiesCheckFails(article)
    /\ hdr.kind = "return"
    /\ hdr.value.msg = ENTITIES_ERROR_MSG

====
